---- MODULE Spec2Model ----
(***************************************************************************)
(* The send path of mmqtt: handle_args (argument_parser.py) builds the     *)
(* _overrides bag and calls send_text_message; publish_message and         *)
(* generate_mesh_packet (tx_message_handler.py) resolve identity, channel, *)
(* destination and hop parameters, assign the message id, build the body   *)
(* and hand the envelope to client.publish.                                *)
(*                                                                         *)
(* Python values: an optional value is None (<<>>) or Some(v) (<<v>>);     *)
(* a node identifier is a sequence of one-character strings, so that       *)
(* startswith, replace, lower and int(.., 16) are computed, not assumed.   *)
(***************************************************************************)
EXTENDS Integers, Sequences, FiniteSets, TLC

None == <<>>
Some(v) == <<v>>

\* ---------------------------------------------------------------- bounds
\* Number of sends of one process that the model follows.
MaxSends == 2

\* ------------------------------------------------------------- constants
DefaultHop == 3
DefaultBitfield == 1

\* ------------------------------------------------------- 32-bit values
\* A node number, destination or message id is a 32-bit unsigned value,
\* kept as its two 16-bit halves: U32(hi, lo) is hi * 65536 + lo.  The high
\* half of a parsed value may exceed 16 bits: the value then does not fit
\* the uint32 field it is assigned to.
Half == 256 * 256
U32(hi, lo) == <<hi, lo>>
Zero == U32(0, 0)
Broadcast == U32(Half - 1, Half - 1)        \* 4294967295 = 0xFFFFFFFF
FitsU32(v) == v[1] < Half
\* v * base + d
MulAdd(v, base, d) ==
    LET low == v[2] * base + d
    IN  U32(v[1] * base + low \div Half, low % Half)
\* (v + 1) % 2^32
Succ32(v) ==
    IF v[2] + 1 < Half THEN U32(v[1], v[2] + 1)
    ELSE U32((v[1] + 1) % Half, 0)

\* -------------------------------------------------------- node id strings
LowerHexChars == <<"0", "1", "2", "3", "4", "5", "6", "7", "8", "9",
                   "a", "b", "c", "d", "e", "f">>
UpperHexChars == <<"0", "1", "2", "3", "4", "5", "6", "7", "8", "9",
                   "A", "B", "C", "D", "E", "F">>

IndexIn(c, chars) == CHOOSE i \in 1..Len(chars) : chars[i] = c
InChars(c, chars) == \E i \in 1..Len(chars) : chars[i] = c

IsHexChar(c) == InChars(c, LowerHexChars) \/ InChars(c, UpperHexChars)

DigitValue(c) ==
    IF InChars(c, LowerHexChars) THEN IndexIn(c, LowerHexChars) - 1
    ELSE IndexIn(c, UpperHexChars) - 1

\* str.lower() on one character, then on a string.
LowerChar(c) ==
    IF InChars(c, UpperHexChars) THEN LowerHexChars[IndexIn(c, UpperHexChars)]
    ELSE c
lower(s) == [i \in 1..Len(s) |-> LowerChar(s[i])]

\* node_id.replace("!", ""): every "!" is removed, not only the first.
replace_bang(s) == SelectSeq(s, LAMBDA c : c # "!")

\* faulty variant: the sigil test left out
sigil_unchecked(s) == TRUE
\* node_id.startswith("!")
startswith_bang(s) == Len(s) >= 1 /\ s[1] = "!"

\* int(digits, 16): ValueError on the empty string or a non-hex character.
RECURSIVE HexValue(_)
HexValue(s) ==
    IF s = <<>> THEN Zero
    ELSE MulAdd(HexValue(SubSeq(s, 1, Len(s) - 1)), 16, DigitValue(s[Len(s)]))

HexParses(s) == s # <<>> /\ \A i \in 1..Len(s) : IsHexChar(s[i])

\* faulty variant: the digits read in base 10
RECURSIVE DecValue(_)
DecValue(s) ==
    IF s = <<>> THEN Zero
    ELSE MulAdd(DecValue(SubSeq(s, 1, Len(s) - 1)), 10, DigitValue(s[Len(s)]))

from_id_base10(node_id) == DecValue(replace_bang(node_id))
\* from_id = int(node_id.replace("!", ""), 16)
from_id_of(node_id) == HexValue(replace_bang(node_id))

\* faulty variant: the broadcast address not reserved
reserved_ids_without_broadcast == {U32(0, 1), U32(0, 2), U32(0, 3), U32(0, 4)}
\* reserved_ids = [1, 2, 3, 4, 4294967295]
reserved_ids == {U32(0, 1), U32(0, 2), U32(0, 3), U32(0, 4), Broadcast}

\* ------------------------------------------------------ Python `a or b`
TruthySeq(o) == o # None /\ o[1] # <<>>
TruthyStr(o) == o # None /\ o[1] # ""
TruthyInt(o) == o # None /\ o[1] # 0
TruthyU32(o) == o # None /\ o[1] # Zero

\* handle_args: getattr(args, name, None) or None
NormSeq(o) == IF TruthySeq(o) THEN o ELSE None
NormStr(o) == IF TruthyStr(o) THEN o ELSE None
NormInt(o) == IF TruthyInt(o) THEN o ELSE None
NormU32(o) == IF TruthyU32(o) THEN o ELSE None

\* ------------------------------------------------------------ input sets
ID_Ab == <<"!", "A", "b">>
ID_c4 == <<"!", "c", "4">>
ID_d5 == <<"!", "d", "5">>
ID_broadcast == <<"!", "F", "F", "F", "F", "F", "F", "F", "F">>
ID_four == <<"!", "0", "4">>
ID_nosigil == <<"A", "b">>
ID_nothex == <<"!", "g">>
ID_wide == <<"!", "1", "0", "0", "0", "0", "0", "0", "0", "0">>

\* Parsed command lines (the fields of args that handle_args reads).
ArgsNone ==
    [node_id |-> None, channel_preset |-> None, channel_key |-> None,
     destination |-> None, hop_limit |-> None]

ArgLines ==
    {ArgsNone}
    \cup {[ArgsNone EXCEPT !.node_id = Some(n)] :
            n \in {ID_Ab, ID_broadcast, ID_nosigil, ID_wide, <<>>}}
    \cup {[ArgsNone EXCEPT !.channel_key = Some(k)] : k \in {"", "AQ==", "bad"}}
    \cup {[ArgsNone EXCEPT !.destination = Some(d)] : d \in {Zero, U32(0, 7)}}
    \cup {[ArgsNone EXCEPT !.hop_limit = Some(h)] : h \in {0, 5}}
    \cup {[ArgsNone EXCEPT !.channel_preset = Some("MediumFast")]}
    \cup {[node_id |-> Some(ID_Ab), channel_preset |-> Some("MediumFast"),
           channel_key |-> Some(""), destination |-> Some(U32(0, 7)),
           hop_limit |-> Some(5)]}

\* Keyword arguments of one call of send_text_message.
KwNone ==
    [use_config |-> FALSE, has_overrides |-> TRUE, message |-> Some("hi"),
     has_to |-> FALSE, to |-> None,
     has_hop_limit |-> FALSE, hop_limit |-> 0,
     has_hop_start |-> FALSE, hop_start |-> 0]

KwargSets ==
    {KwNone,
     [KwNone EXCEPT !.has_overrides = FALSE],
     [KwNone EXCEPT !.message = None],
     [KwNone EXCEPT !.has_to = TRUE, !.to = None],
     [KwNone EXCEPT !.has_to = TRUE, !.to = Some(Zero)],
     [KwNone EXCEPT !.has_to = TRUE, !.to = Some(U32(0, 9))],
     [KwNone EXCEPT !.has_hop_limit = TRUE, !.hop_limit = 6],
     [KwNone EXCEPT !.has_hop_limit = TRUE, !.hop_limit = 6,
                    !.has_hop_start = TRUE, !.hop_start = 6]}

ConfigNodeIds == {ID_c4, ID_four, ID_nothex}
ConfigKeys == {"", "AQ=="}
Seeds == {U32(0, 41), Broadcast}

VARIABLES
    config,         \* ConfigLoader.get_config(): the fields the send path reads
    client,         \* the mmqtt.client module: node_id, channel, key, ...
    overrides,      \* the _overrides bag handle_args builds once
    message_id,     \* the module global of tx_message_handler
    sent,           \* sends attempted so far
    publish_calls,  \* calls of client.publish so far
    ids,            \* ids of the packets assembled so far, in order
    raised,         \* an exception left publish_message
    last            \* the last send: its arguments and what it did

vars == <<config, client, overrides, message_id, sent, publish_calls, ids,
          raised, last>>

\* ------------------------------------------------------- handle_args
\* The _overrides bag built from the parsed arguments.
handle_args_overrides(args) ==
    [node_id |-> NormSeq(args.node_id),
     channel_preset |-> NormStr(args.channel_preset),
     channel_key |-> args.channel_key,
     destination |-> NormU32(args.destination),
     hop_limit |-> NormInt(args.hop_limit)]

\* ------------------------------------------------ collaborators (utils,
\* encryption): not part of the sources at hand, modelled from the spec.
\* MessageIdGenerator.next: a 32-bit value that is not the previous one
\* and does not repeat within a session.
get_message_id(previous) == Succ32(previous)

\* ChannelHasher: a deterministic function of (name, key), no errors.
generate_hash(channel_id, channel_key) ==
    [hash_of_name |-> channel_id, hash_of_key |-> channel_key]

\* EncryptionEngine: InvalidKey when the key does not decode.
KeyDecodes(channel_key) == channel_key \in {"AQ=="}
encrypt_packet(channel_id, channel_key, packet_id, from_id, encoded_message) ==
    [cipher_key |-> channel_key, nonce_id |-> packet_id, nonce_from |-> from_id,
     plaintext |-> encoded_message]

\* ----------------------------------------------- generate_mesh_packet
\* _overrides[k] or default, for a node id / a name / a number.
OrSeq(o, default) == IF TruthySeq(o) THEN o[1] ELSE default
OrStr(o, default) == IF TruthyStr(o) THEN o[1] ELSE default

\* faulty variant: `or`, which lets an empty override fall through
channel_key_or(override_key, base_key) ==
    IF TruthyStr(override_key) THEN override_key[1] ELSE base_key
\* _overrides['channel_key'] if _overrides['channel_key'] is not None else <key>
channel_key_of(override_key, base_key) ==
    IF override_key # None THEN override_key[1] ELSE base_key

\* kwargs.get("to", <default destination>)
kwargs_get_to(kwargs, default) ==
    IF kwargs.has_to THEN kwargs.to ELSE Some(default)

\* faulty variant: the per-call destination before the override
destination_per_call_first(override_destination, kwargs, default) ==
    IF kwargs.has_to THEN kwargs.to
    ELSE IF TruthyU32(override_destination) THEN override_destination
    ELSE Some(default)
\* _overrides['destination'] or kwargs.get("to", <default destination>)
destination_of(override_destination, kwargs, default) ==
    IF TruthyU32(override_destination) THEN override_destination
    ELSE kwargs_get_to(kwargs, default)

\* _overrides['hop_limit'] or kwargs.get("hop_limit", 3)
hop_limit_of(override_hop, kwargs) ==
    IF TruthyInt(override_hop) THEN override_hop[1]
    ELSE IF kwargs.has_hop_limit THEN kwargs.hop_limit ELSE DefaultHop
\* _overrides['hop_limit'] or kwargs.get("hop_start", 3)
hop_start_of(override_hop, kwargs) ==
    IF TruthyInt(override_hop) THEN override_hop[1]
    ELSE IF kwargs.has_hop_start THEN kwargs.hop_start ELSE DefaultHop

\* faulty variant: the new id is not stored in the global
assign_message_id_not_stored(previous) == previous
\* global message_id; message_id = get_message_id(message_id)
assign_message_id(previous) == get_message_id(previous)

\* faulty variant: encryption skipped
always_cleartext(channel_key) == TRUE
\* if channel_key == "": (the cleartext branch)
body_is_cleartext(channel_key) == channel_key = ""

\* What one call of generate_mesh_packet leaves behind: the exception it
\* raised (error, and the stage that raised it), the module global
\* message_id, whether encrypt_packet was called, and the envelope.
Raise(error, stage, mid, called) ==
    [error |-> error, stage |-> stage, message_id |-> mid,
     encrypt_called |-> called, envelope |-> None]
Return(mid, called, envelope) ==
    [error |-> "none", stage |-> "serialized", message_id |-> mid,
     encrypt_called |-> called, envelope |-> Some(envelope)]

generate_mesh_packet(encoded_message, kwargs, cfg, cli, ov, mid) ==
    IF ~kwargs.has_overrides
    THEN \* _overrides is False: False['node_id']
         Raise("TypeError", "overrides", mid, FALSE)
    ELSE
    LET use_config == kwargs.use_config
        node_id == OrSeq(ov.node_id, IF use_config THEN cfg.nodeinfo_id ELSE cli.node_id)
        channel_id == OrStr(ov.channel_preset,
                            IF use_config THEN cfg.channel_preset ELSE cli.channel)
        channel_key == channel_key_of(ov.channel_key,
                                      IF use_config THEN cfg.channel_key ELSE cli.key)
        gateway_id == lower(node_id)
        from_id == from_id_of(node_id)
        destination == destination_of(ov.destination, kwargs,
                           IF use_config THEN cfg.destination_id ELSE cli.destination_id)
        new_id == assign_message_id(mid)
        mesh_packet ==
            [id |-> new_id, from |-> from_id, to |-> destination[1],
             want_ack |-> FALSE,
             channel |-> generate_hash(channel_id, channel_key),
             hop_limit |-> hop_limit_of(ov.hop_limit, kwargs),
             hop_start |-> hop_start_of(ov.hop_limit, kwargs),
             decoded |-> None, encrypted |-> None]
        envelope(packet) ==
            [packet |-> packet, channel_id |-> channel_id, gateway_id |-> gateway_id]
    IN  IF ~startswith_bang(node_id)
        THEN Raise("ValueError", "sigil", mid, FALSE)
        ELSE IF ~HexParses(replace_bang(node_id))
        THEN Raise("ValueError", "parse", mid, FALSE)
        ELSE IF from_id \in reserved_ids
        THEN Raise("ValueError", "reserved", mid, FALSE)
        ELSE IF ~FitsU32(from_id)
        THEN \* setattr(mesh_packet, "from", from_id): out of range for uint32
             Raise("ValueError", "from", new_id, FALSE)
        ELSE IF destination = None
        THEN \* int(None)
             Raise("TypeError", "to", new_id, FALSE)
        ELSE IF body_is_cleartext(channel_key)
        THEN Return(new_id, FALSE,
                    envelope([mesh_packet EXCEPT !.decoded = Some(encoded_message)]))
        ELSE IF ~KeyDecodes(channel_key)
        THEN Raise("InvalidKey", "encrypt", new_id, TRUE)
        ELSE Return(new_id, TRUE,
                    envelope([mesh_packet EXCEPT !.encrypted =
                        Some(encrypt_packet(channel_id, channel_key, new_id,
                                            from_id, encoded_message))]))

\* create_payload, with the defaults send_text_message leaves in place.
create_payload(data, kwargs, cfg, cli, ov, mid) ==
    generate_mesh_packet(
        [portnum |-> "TEXT_MESSAGE_APP", payload |-> data,
         want_response |-> FALSE, bitfield |-> DefaultBitfield],
        kwargs, cfg, cli, ov, mid)

\* create_text_payload: message.encode("utf-8") needs a string.
create_text_payload(kwargs, cfg, cli, ov, mid) ==
    IF kwargs.message = None
    THEN Raise("AttributeError", "payload", mid, FALSE)
    ELSE create_payload(kwargs.message[1], kwargs, cfg, cli, ov, mid)

\* ---------------------------------------------------- publish_message
\* faulty variant: except ValueError only
propagates_unless_value_error(error) == error \notin {"none", "ValueError"}
\* except Exception as e: print(...) -- nothing leaves publish_message
propagates(error) == FALSE

\* faulty variant: publish outside the try block
publish_always_reached(payload_error) == TRUE
\* client.publish(topic, payload) follows payload_function in the try block
publish_reached(payload_error) == payload_error = "none"

\* f"{root_topic}/2/e/{channel}/{node_id.lower()}"
topic_of(root_topic, channel, node_id) ==
    <<root_topic, "2", "e", channel, lower(node_id)>>

\* One call publish_message(create_text_payload, TEXT_MESSAGE_APP, **kwargs);
\* transport_ok is whether client.publish returns or raises.
publish_message(kwargs, transport_ok) ==
    LET use_config == kwargs.use_config
        bag == kwargs.has_overrides
        \* lines 41-42 and 45-46 write the resolved values back
        config1 ==
            IF bag /\ use_config
            THEN [config EXCEPT
                    !.nodeinfo_id = OrSeq(overrides.node_id, @),
                    !.channel_preset = OrStr(overrides.channel_preset, @)]
            ELSE config
        client1 ==
            IF bag /\ ~use_config
            THEN [client EXCEPT
                    !.node_id = OrSeq(overrides.node_id, @),
                    !.channel = OrStr(overrides.channel_preset, @)]
            ELSE client
        topic ==
            IF use_config
            THEN topic_of(config1.root_topic, config1.channel_preset, config1.nodeinfo_id)
            ELSE topic_of(client1.root_topic, client1.channel, client1.node_id)
        base_destination ==
            IF use_config THEN config1.destination_id ELSE client1.destination_id
        \* lines 49-53: the destination that is printed
        destination ==
            IF kwargs.has_to /\ kwargs.to # None THEN kwargs.to
            ELSE IF overrides.destination # None THEN overrides.destination
            ELSE Some(base_destination)
        payload_function ==
            IF ~bag
            THEN \* _overrides is False: False['node_id'] at line 41 or 45
                 Raise("TypeError", "overrides", message_id, FALSE)
            ELSE create_text_payload(kwargs, config1, client1, overrides, message_id)
    IN  \E payload \in {payload_function} :
        LET published == publish_reached(payload.error)
            error ==
                IF payload.error # "none" THEN payload.error
                ELSE IF transport_ok THEN "none" ELSE "TransportFailure"
        IN
        /\ config' = config1
        /\ client' = client1
        /\ message_id' = payload.message_id
        /\ publish_calls' = IF published THEN publish_calls + 1 ELSE publish_calls
        /\ ids' = IF payload.envelope # None
                  THEN Append(ids, payload.envelope[1].packet.id)
                  ELSE ids
        /\ raised' = propagates(error)
        /\ last' = [kwargs |-> kwargs,
                    before |-> [config |-> config, client |-> client,
                                message_id |-> message_id],
                    error |-> error,
                    stage |-> IF payload.error # "none" THEN payload.stage
                              ELSE IF transport_ok THEN "published" ELSE "publish",
                    encrypt_called |-> payload.encrypt_called,
                    envelope |-> payload.envelope,
                    published |-> IF published
                                  THEN Some([topic |-> topic, payload |-> payload.envelope,
                                             logged_to |-> destination])
                                  ELSE None]
        /\ UNCHANGED overrides

\* ---------------------------------------------------------- the callers
CanSend == sent < MaxSends /\ ~raised

\* handle_args, --message: send_text_message(msg, use_config=True,
\* _overrides=_overrides), once per message.
MessageSend ==
    /\ CanSend
    /\ \E transport_ok \in BOOLEAN :
         publish_message([KwNone EXCEPT !.use_config = TRUE], transport_ok)
    /\ sent' = sent + 1

\* handle_args, --message-file: send_text_message(msg, use_config=True),
\* once per non-empty line.
MessageFileSend ==
    /\ CanSend
    /\ \E transport_ok \in BOOLEAN :
         publish_message([KwNone EXCEPT !.use_config = TRUE,
                                        !.has_overrides = FALSE], transport_ok)
    /\ sent' = sent + 1

\* A caller of the package: send_text_message(message, **kwargs).
DirectSend ==
    /\ CanSend
    /\ \E kwargs \in KwargSets, use_config \in BOOLEAN, transport_ok \in BOOLEAN :
         publish_message([kwargs EXCEPT !.use_config = use_config], transport_ok)
    /\ sent' = sent + 1

Init ==
    /\ \E id \in ConfigNodeIds, key \in ConfigKeys :
         config = [nodeinfo_id |-> id, channel_preset |-> "LongFast",
                   channel_key |-> key, destination_id |-> Broadcast,
                   root_topic |-> "msh"]
    /\ client = [node_id |-> ID_d5, channel |-> "LongFast", key |-> "AQ==",
                 destination_id |-> Broadcast, root_topic |-> "msh"]
    /\ \E args \in ArgLines : overrides = handle_args_overrides(args)
    /\ message_id \in Seeds
    /\ sent = 0
    /\ publish_calls = 0
    /\ ids = <<>>
    /\ raised = FALSE
    /\ last = [kwargs |-> KwNone,
               before |-> [config |-> config, client |-> client,
                           message_id |-> message_id],
               error |-> "none", stage |-> "init", encrypt_called |-> FALSE,
               envelope |-> None, published |-> None]

Next == MessageSend \/ MessageFileSend \/ DirectSend

Spec == Init /\ [][Next]_vars

\* ------------------------------------------------- vocabulary of the claims
SendDone == last.stage # "init"
Assembled == last.envelope # None
Packet == last.envelope[1].packet
\* generate_mesh_packet was entered with a bag to consult.
Entered == SendDone /\ last.kwargs.has_overrides /\ last.kwargs.message # None

BaseNodeId ==
    IF last.kwargs.use_config THEN last.before.config.nodeinfo_id
    ELSE last.before.client.node_id
BaseKey ==
    IF last.kwargs.use_config THEN last.before.config.channel_key
    ELSE last.before.client.key
BaseDestination ==
    IF last.kwargs.use_config THEN last.before.config.destination_id
    ELSE last.before.client.destination_id

\* the override if set, else the configured value
ResolvedNodeId ==
    IF overrides.node_id # None THEN overrides.node_id[1] ELSE BaseNodeId
ResolvedKey ==
    IF overrides.channel_key # None THEN overrides.channel_key[1] ELSE BaseKey

ReservedAddresses == {<<0, 1>>, <<0, 2>>, <<0, 3>>, <<0, 4>>, <<65535, 65535>>}
HasSigil(id) == id # <<>> /\ id[1] = "!"
Digits(id) == SubSeq(id, 2, Len(id))
AllHex(digits) ==
    /\ digits # <<>>
    /\ \A i \in 1..Len(digits) :
         digits[i] \in {"0", "1", "2", "3", "4", "5", "6", "7", "8", "9",
                        "a", "b", "c", "d", "e", "f", "A", "B", "C", "D", "E", "F"}
\* '!' followed by hexadecimal digits
WellFormed(id) == HasSigil(id) /\ AllHex(Digits(id))
NumericValue(id) == HexValue(Digits(id))

\* C1: a node identifier that begins with '!' and whose hexadecimal value is
\* 1, 2, 3, 4 or 4294967295 makes generate_mesh_packet fail, in the use_config
\* branch and in the client branch alike, and no assembled packet carries a
\* reserved value in `from`.
C1_ReservedNeverSent ==
    /\ Assembled => Packet.from \notin ReservedAddresses
    /\ (Entered /\ WellFormed(ResolvedNodeId)
          /\ NumericValue(ResolvedNodeId) \in ReservedAddresses)
       => /\ last.error = "ValueError"
          /\ last.stage = "reserved"
          /\ ~Assembled
          /\ last.published = None

C1_Witness ==
    /\ Entered
    /\ ~last.kwargs.use_config
    /\ ResolvedNodeId = ID_broadcast
    /\ last.stage = "reserved"

\* '!' followed by a hexadecimal 32-bit value that is not reserved
ValidNodeId(id) ==
    /\ WellFormed(id)
    /\ NumericValue(id)[1] < 65536
    /\ NumericValue(id) \notin ReservedAddresses

\* C2: a valid node identifier ('!' followed by a hexadecimal 32-bit value)
\* that is not reserved passes validation whether it comes from the override
\* or from the configuration: the send is assembled unless a later stage
\* (destination conversion, encryption) fails, and the packet's `from` is the
\* identifier's numeric value.
C2_ValidIdAssembles ==
    (Entered /\ ValidNodeId(ResolvedNodeId))
    => /\ last.stage \notin {"overrides", "sigil", "parse", "reserved", "from"}
       /\ Assembled \/ last.stage \in {"to", "encrypt"}
       /\ Assembled => Packet.from = NumericValue(ResolvedNodeId)

\* from the configuration (no --node_id), upper-case digits folded
C2_Witness ==
    /\ Entered
    /\ last.kwargs.use_config
    /\ overrides.node_id = None
    /\ last.before.config.nodeinfo_id = ID_c4
    /\ Assembled
    /\ Packet.from = <<0, 196>>

\* C3: a resolved node identifier (override if set, else configured) that
\* does not begin with '!' makes the assembly fail with the "Node ID must
\* start with '!'" error, before a message id is assigned and before a body
\* is built.
C3_MissingSigilFails ==
    (Entered /\ ~HasSigil(ResolvedNodeId))
    => /\ last.error = "ValueError"
       /\ last.stage = "sigil"
       /\ message_id = last.before.message_id
       /\ ~last.encrypt_called
       /\ ~Assembled
       /\ last.published = None

C3_Witness ==
    /\ Entered
    /\ ResolvedNodeId = ID_nosigil
    /\ last.stage = "sigil"

\* C4: an assembled MeshPacket has exactly one of decoded / encrypted
\* populated, and the resolved channel key alone decides which: decoded, with
\* no call of encrypt_packet, when the key is empty, encrypted otherwise.
C4_OneBodyByKey ==
    /\ Assembled =>
         /\ (Packet.decoded = None) # (Packet.encrypted = None)
         /\ (ResolvedKey = "") <=> (Packet.decoded # None)
         /\ (ResolvedKey = "") <=> ~last.encrypt_called
    /\ (Entered /\ ResolvedKey = "") => ~last.encrypt_called

C4_Witness ==
    /\ Assembled
    /\ ResolvedKey = "AQ=="
    /\ Packet.encrypted # None
    /\ Packet.decoded = None

\* the send got as far as building the body
BodyStage == Assembled \/ (SendDone /\ last.stage = "encrypt")
\* C5: the channel key is resolved from three cases: no override key, the
\* configured key is used; the override key is the empty string, the send is
\* cleartext even when the configured key is not empty; the override key is
\* a non-empty string, that key is used whatever the configured key.
C5_ThreeValuedKey ==
    /\ (BodyStage /\ overrides.channel_key = None) =>
         /\ BaseKey = "" => Assembled /\ Packet.decoded # None
         /\ BaseKey # "" =>
              /\ last.encrypt_called
              /\ Assembled => Packet.encrypted[1].cipher_key = BaseKey
    /\ (BodyStage /\ overrides.channel_key = Some("")) =>
         /\ Assembled
         /\ Packet.decoded # None
         /\ ~last.encrypt_called
    /\ (BodyStage /\ overrides.channel_key # None /\ overrides.channel_key # Some("")) =>
         /\ last.encrypt_called
         /\ Assembled => Packet.encrypted[1].cipher_key = overrides.channel_key[1]

\* --channel_key "" over a configured key
C5_Witness ==
    /\ Assembled
    /\ overrides.channel_key = Some("")
    /\ BaseKey = "AQ=="
    /\ Packet.decoded # None

\* C6: the packet's `to` is the override destination when one is set, else
\* the per-call `to` when one is given, else the configured default.
C6_DestinationPrecedence ==
    Assembled =>
      /\ overrides.destination # None => Packet.to = overrides.destination[1]
      /\ (overrides.destination = None /\ last.kwargs.has_to)
            => Packet.to = last.kwargs.to[1]
      /\ (overrides.destination = None /\ ~last.kwargs.has_to)
            => Packet.to = BaseDestination

\* an override and a per-call destination together
C6_Witness ==
    /\ Assembled
    /\ overrides.destination = Some(<<0, 7>>)
    /\ last.kwargs.has_to
    /\ last.kwargs.to = Some(<<0, 9>>)
    /\ Packet.to = <<0, 7>>

\* the override hop limit, else the per-call hop_limit, else 3
ResolvedHop ==
    IF overrides.hop_limit # None THEN overrides.hop_limit[1]
    ELSE IF last.kwargs.has_hop_limit THEN last.kwargs.hop_limit
    ELSE 3

\* C7: in every assembled packet hop_start equals hop_limit, both being the
\* one resolved value: the override hop limit, else the per-call hop_limit,
\* else 3.
C7_HopStartEqualsHopLimit ==
    Assembled =>
      /\ Packet.hop_limit = ResolvedHop
      /\ Packet.hop_start = Packet.hop_limit

\* C8: the id given to a packet is the generator applied to the previous
\* value of message_id, it differs from the id of the packet before it, and
\* no two packets assembled in the session carry the same id.
C8_MessageIdsNeverRepeat ==
    /\ Assembled =>
         /\ Packet.id = get_message_id(last.before.message_id)
         /\ Packet.id = message_id
         /\ Packet.id = ids[Len(ids)]
         /\ Len(ids) >= 2 => Packet.id # ids[Len(ids) - 1]
    /\ \A i, j \in 1..Len(ids) : i # j => ids[i] # ids[j]

\* two packets, the first id wrapped around 2^32
C8_Witness ==
    /\ Assembled
    /\ Len(ids) = 2
    /\ ids[1] = <<0, 0>>
    /\ ids[2] = <<0, 1>>

\* C9: publish_message returns normally whatever fails (resolution of
\* identity or channel, encryption, payload construction, the transport), so
\* the sends that follow a failed one are still made.
C9_NeverPropagates ==
    /\ ~raised
    /\ (SendDone /\ last.error # "none" /\ sent < MaxSends)
          => CanSend

\* a send that went through after one that failed before assembly
C9_Witness ==
    /\ sent = 2
    /\ Len(ids) = 1
    /\ Assembled
    /\ last.error = "none"
    /\ ~raised

\* C10: a send whose assembly fails on the node identifier or on the key
\* emits no envelope (client.publish is not called for it), and
\* client.publish is called exactly once for each send that was assembled.
C10_PublishOnlyAssembled ==
    /\ (SendDone /\ last.stage \in {"sigil", "parse", "reserved", "from", "encrypt"})
          => last.published = None
    /\ SendDone => ((last.published # None) <=> Assembled)
    /\ last.published # None => last.published[1].payload = last.envelope
    /\ publish_calls = Len(ids)

C10_Witness ==
    /\ sent = 2
    /\ last.error = "InvalidKey"
    /\ last.published = None
    /\ publish_calls = 0

\* C11: only the message-id counter persists from one send to the next: a
\* send leaves the baseline configuration (config.nodeinfo.id and
\* config.channel.preset, or client.node_id and client.channel) and the
\* overrides bag as they were, with or without overrides, whether it
\* succeeds or fails.
C11_OnlyCounterPersists ==
    [][/\ config' = config
       /\ client' = client
       /\ overrides' = overrides]_vars

\* a send called with use_config=True and without the _overrides keyword,
\* as the --message-file loop calls send_text_message, on a configuration
\* that is valid by itself
NoBagSend ==
    /\ SendDone
    /\ last.kwargs.use_config
    /\ ~last.kwargs.has_overrides
    /\ last.kwargs.message # None
    /\ ValidNodeId(BaseNodeId)
    /\ BaseKey \in {"", "AQ=="}

\* C12: a send invoked without an overrides bag, as --message-file does for
\* each non-empty line, takes every field from the configuration (node
\* identifier, key, destination, default hop limit) and has one envelope
\* published for it.
C12_NoBagFallsBackAndPublishes ==
    NoBagSend =>
        /\ Assembled
        /\ last.published # None
        /\ Packet.from = NumericValue(BaseNodeId)
        /\ Packet.to = BaseDestination
        /\ Packet.hop_limit = DefaultHop
        /\ (Packet.decoded # None) <=> (BaseKey = "")

\* the last send reached node-identifier validation and passed it: sigil
\* present, hexadecimal digits, value not reserved
PassedIdentityValidation ==
    /\ Entered
    /\ WellFormed(ResolvedNodeId)
    /\ NumericValue(ResolvedNodeId) \notin ReservedAddresses

\* C13: the process-wide message_id is advanced exactly once by each send
\* whose node identifier passes validation (sigil present, hexadecimal, not
\* reserved), also when the send fails later, and is left as it was by every
\* send rejected at node-identifier validation or before it; so the advances
\* of the counter are as many as the sends that passed identity validation.
C13_CounterAdvancesIffValidated ==
    SendDone =>
        /\ PassedIdentityValidation
              => /\ message_id = get_message_id(last.before.message_id)
                 /\ message_id # last.before.message_id
        /\ ~PassedIdentityValidation
              => message_id = last.before.message_id
        /\ last.stage \in {"sigil", "parse", "reserved"}
              => ~PassedIdentityValidation

\* a send that passed validation and took an id, followed by a send that is
\* rejected for its reserved node identifier and leaves the counter alone
C13_Witness ==
    /\ sent = 2
    /\ Len(ids) = 1
    /\ last.stage = "reserved"
    /\ message_id = ids[1]
    /\ message_id = last.before.message_id
====
